---- MODULE Spec2Model ----
(***************************************************************************)
(* The cached NOAA weather sources of eemeter (eemeter/weather/noaa.py):   *)
(* GSODWeatherSource (daily) and ISDWeatherSource (hourly).  One source    *)
(* object keeps a temperature series tempC, fetches missing years from    *)
(* the remote client on demand, merges them into the series and writes    *)
(* the series to the station's cache entry.                                *)
(*                                                                         *)
(* Time is counted in hours from the first hour of year 0.  A year has    *)
(* DaysPerYear days of HoursPerDay hours; an ISD record carries a time in  *)
(* minutes, MinutesPerHour to the hour.  A temperature is a rational       *)
(* [n, d] (n/d in lowest terms); d = 0 is NaN, the null of the series.     *)
(*                                                                         *)
(* The second part is eemeter/weather.py: the sources that download the    *)
(* files of a range of years into memory when they are constructed         *)
(* (GSODWeatherSource, ISDWeatherSource) or query a web service            *)
(* (WeatherUndergroundWeatherSource), and average them over consumption    *)
(* periods.  LegacySpec is the specification of that part.                 *)
(***************************************************************************)
EXTENDS Integers, Sequences, FiniteSets

\* ---- bounds of the model
MaxYear == 2
DaysPerYear == 2
HoursPerDay == 2
MinutesPerHour == 2
MaxRecords == 1
MaxCalls == 2

Years == 0..MaxYear
HoursPerYear == DaysPerYear * HoursPerDay
Temps == {10, 20}

\* ---- temperatures
NULL == [n |-> 0, d |-> 0]
Temp(x) == [n |-> x, d |-> 1]
isnull(v) == v.d = 0

RECURSIVE GCD(_, _)
GCD(a, b) == IF b = 0 THEN a ELSE GCD(b, a % b)

Ratio(n, d) == LET g == GCD(n, d) IN [n |-> n \div g, d |-> d \div g]

RECURSIVE SumOf(_)
SumOf(vals) ==
  IF vals = <<>> THEN [n |-> 0, d |-> 1]
  ELSE LET a == Head(vals)
           b == SumOf(Tail(vals))
       IN Ratio(a.n * b.d + b.n * a.d, a.d * b.d)

\* a slip in the aggregation: a NaN entry makes the mean of its bucket NaN
MeanKeepsNulls(vals) ==
  LET s == SumOf(vals)
  IN IF vals = <<>> \/ \E i \in DOMAIN vals : isnull(vals[i]) THEN NULL
     ELSE Ratio(s.n, s.d * Len(vals))

\* mean() of one resampling bucket: NaN entries are skipped, a bucket with no
\* non-null entry is NaN
mean(vals) ==
  LET present == SelectSeq(vals, LAMBDA v : ~isnull(v))
      s == SumOf(present)
  IN IF present = <<>> THEN NULL ELSE Ratio(s.n, s.d * Len(present))

\* ---- the calendar of the two sources
Interval(source) == IF source = "GSOD" THEN HoursPerDay ELSE 1

\* the bucket of the source's frequency an hour falls in
Bucket(source, t) == (t \div Interval(source)) * Interval(source)

\* pd.date_range(first, last, freq): both ends included
date_range(first, last, step) ==
  [i \in 1..((last - first) \div step + 1) |-> first + (i - 1) * step]

FirstHour(year) == year * HoursPerYear

\* a slip in _empty_series: the index stops one interval early
EmptySeriesShort(source, year) ==
  [t \in {FirstHour(year) + i * Interval(source) :
            i \in 0..(HoursPerYear \div Interval(source) - 2)} |-> NULL]

\* _empty_series: the index of a year, every value NaN
_empty_series(source, year) ==
  LET dates == IF source = "GSOD"
               THEN date_range(FirstHour(year),
                               FirstHour(year) + (DaysPerYear - 1) * HoursPerDay,
                               HoursPerDay)
               ELSE SubSeq(date_range(FirstHour(year), FirstHour(year + 1), 1),
                           1, HoursPerYear)
  IN [t \in {dates[i] : i \in DOMAIN dates} |-> NULL]

\* the series key of one record of the client: GSOD records carry a date,
\* ISD records a datetime that is cut to the hour
RecordKey(source, rec) ==
  IF source = "GSOD" THEN rec.at * HoursPerDay ELSE rec.at \div MinutesPerHour

\* the loop over the client's records: a null reading is skipped, a later
\* record of the same slot replaces an earlier one
RECURSIVE FillSeries(_, _, _)
FillSeries(source, new_series, data) ==
  IF data = <<>> THEN new_series
  ELSE LET rec == Head(data)
           k == RecordKey(source, rec)
           filled == IF isnull(rec.temp_C) THEN new_series
                     ELSE [new_series EXCEPT ![k] = rec.temp_C]
       IN FillSeries(source, filled, Tail(data))

\* ---- series as pandas handles them
RECURSIVE Entries(_)
Entries(series) ==
  IF DOMAIN series = {} THEN <<>>
  ELSE LET t == CHOOSE x \in DOMAIN series : \A y \in DOMAIN series : x <= y
       IN <<[t |-> t, v |-> series[t]]>>
          \o Entries([x \in DOMAIN series \ {t} |-> series[x]])

append(series, new_series) == Entries(series) \o Entries(new_series)

\* sort_index(): by timestamp, entries of one timestamp in their order
RECURSIVE sort_index(_)
sort_index(entries) ==
  IF Len(entries) <= 1 THEN entries
  ELSE LET e == Head(entries)
           rest == sort_index(Tail(entries))
           k == Cardinality({i \in DOMAIN rest : rest[i].t < e.t})
       IN SubSeq(rest, 1, k) \o <<e>> \o SubSeq(rest, k + 1, Len(rest))

ValuesIn(source, entries, b) ==
  LET inb == SelectSeq(entries, LAMBDA e : Bucket(source, e.t) = b)
  IN [i \in DOMAIN inb |-> inb[i].v]

\* a slip in the resampling: only the buckets that hold an entry become keys
ResampleNoFill(source, entries) ==
  LET keys == {Bucket(source, entries[i].t) : i \in DOMAIN entries}
  IN [b \in keys |-> mean(ValuesIn(source, entries, b))]

\* resample(freq).mean() of a sorted series: one key per interval from the
\* first to the last entry, holding the mean of the entries of its bucket
resample_mean(source, entries) ==
  IF entries = <<>> THEN <<>>
  ELSE LET lo == Bucket(source, entries[1].t)
           hi == Bucket(source, entries[Len(entries)].t)
           keys == {lo + i * Interval(source) :
                      i \in 0..((hi - lo) \div Interval(source))}
       IN [b \in keys |-> mean(ValuesIn(source, entries, b))]

\* a slip in the merge: the new series replaces the old one
MergeReplaces(source, series, new_series) ==
  resample_mean(source, sort_index(Entries(new_series)))

Merge(source, series, new_series) ==
  resample_mean(source, sort_index(append(series, new_series)))

\* ---- the cache entry of the station and the remote client
\* cache_date_format: "%Y%m%d" names a day, "%Y%m%d%H" an hour
FormatKey(source, t) == IF source = "GSOD" THEN t \div HoursPerDay ELSE t
ParseKey(source, k) == IF source = "GSOD" THEN k * HoursPerDay ELSE k

\* the cache entry written for a series: formatted timestamp -> temperature
save_to_cache(source, series) ==
  [k \in {FormatKey(source, t) : t \in DOMAIN series} |->
     series[ParseKey(source, k)]]

\* the series restored from a cache entry
load_from_cache(source, entry) ==
  [t \in {ParseKey(source, k) : k \in DOMAIN entry} |->
     entry[FormatKey(source, t)]]

\* times a record of the year may carry: its days (GSOD), its minutes (ISD)
RecordTimes(source, year) ==
  IF source = "GSOD"
  THEN (year * DaysPerYear)..((year + 1) * DaysPerYear - 1)
  ELSE (FirstHour(year) * MinutesPerHour)
         ..(FirstHour(year + 1) * MinutesPerHour - 1)

Records(source, year) ==
  [at : RecordTimes(source, year),
   temp_C : {Temp(x) : x \in Temps} \cup {NULL}]

RECURSIVE SeqsUpTo(_, _)
SeqsUpTo(S, n) ==
  IF n = 0 THEN {<<>>}
  ELSE LET shorter == SeqsUpTo(S, n - 1)
       IN shorter \cup {Append(q, x) : q \in shorter, x \in S}

\* what one call of the client may do: return the year's records (possibly
\* none), or fail with a transport error
ClientResults(source, year) ==
  {[ok |-> FALSE, data |-> <<>>]}
    \cup {[ok |-> TRUE, data |-> d] : d \in SeqsUpTo(Records(source, year), MaxRecords)}

\* ---- add_year
_year_fetch_attempted(attempted, year) == year \in attempted

\* year_existence_format names the first day (GSOD) or hour (ISD) of the year
_year_in_series(series, year) == FirstHour(year) \in DOMAIN series

\* a slip in the condition: force is not looked at
NoFetchIgnoringForce(attempted, year, force) ==
  _year_fetch_attempted(attempted, year)

\* the condition under which add_year does not call the client
NoFetch(attempted, year, force) ==
  ~force /\ _year_fetch_attempted(attempted, year)

\* a slip after the merge: the cache is not written
MergeWithoutSave(source, st, new_series) ==
  [st EXCEPT !.tempC = Merge(source, st.tempC, new_series)]

\* tempC = tempC.append(new_series).sort_index().resample(freq).mean();
\* save_to_cache()
MergeAndSave(source, st, new_series) ==
  LET merged == Merge(source, st.tempC, new_series)
  IN [st EXCEPT !.tempC = merged, !.cache = save_to_cache(source, merged)]

\* a slip at the end of add_year: the year is not recorded
AttemptNotMarked(st, year) == st

\* self._year_fetches_attempted.add(year)
MarkAttempted(st, year) ==
  [st EXCEPT !.attempted = st.attempted \cup {year}]

\* One call of add_year on the object state st = [tempC, cache, attempted],
\* given what the client does if it is called.  queried: the client was
\* called; raised: the call ended with the client's exception.
add_year(source, st, year, force, outcome) ==
  LET done(s, q, r) == [tempC |-> s.tempC, cache |-> s.cache,
                        attempted |-> s.attempted, queried |-> q, raised |-> r]
  IN IF NoFetch(st.attempted, year, force)
     THEN IF _year_in_series(st.tempC, year)
          THEN done(st, FALSE, FALSE)
          ELSE done(MergeAndSave(source, st, _empty_series(source, year)),
                    FALSE, FALSE)
     ELSE IF ~outcome.ok
          THEN done(st, TRUE, TRUE)
          ELSE done(MarkAttempted(
                      MergeAndSave(source, st,
                        FillSeries(source, _empty_series(source, year),
                                   outcome.data)),
                      year),
                    TRUE, FALSE)

\* ---- the state
VARIABLES
  source,                  \* "GSOD" or "ISD": the class of the object
  cache,                   \* the station's cache entry
  tempC,                   \* self.tempC
  year_fetches_attempted,  \* self._year_fetches_attempted
  today,                   \* date.today(), a day
  pc,                      \* "none": no object; "__init__", "recent": in the
                           \* constructor; "ready": between calls; "add_year",
                           \* "add_year_range", "verify", "freq": in a call
  todo,                    \* the years the running call has still to visit
  force,                   \* the force argument of the running call
  freq,                    \* the frequency of the index of the running or
                           \* last call, if it is indexed_temperatures
  span,                    \* the years of that index, in ascending order
  result,                  \* how the last call ended
  ev,                      \* the last execution of add_year in the last call
  calls,                   \* client calls made so far
  fetched,                 \* years for which a client call of this object
                           \* has returned
  loadedYears,             \* years present in the series the constructor
                           \* loaded from the cache
  \* eemeter/weather.py
  klass,                   \* the class of the object: "GSOD", "ISD", "WU"
  _data,                   \* self._data
  lpc,                     \* "none": no object; "retr", "parse": in the
                           \* constructor, at the candidates loop and after
                           \* it; "ready"; "failed": the constructor raised
  years_left,              \* the years the constructor has still to load
  potential_station_ids,   \* the candidates of the station, in table order
  candidate,               \* the place of the candidates loop in that list
  string,                  \* the StringIO of the year: the chunks written
  attempt,                 \* the last retrbinary: its candidate and outcome
  returned                 \* what the last call returned or raised

noaa == <<source, cache, tempC, year_fetches_attempted, today, pc, todo, force,
          freq, span, result, ev, calls, fetched, loadedYears>>

legacy == <<klass, _data, lpc, years_left, potential_station_ids, candidate,
            string, attempt, returned>>

vars == <<noaa, legacy>>

NoAttempt == [station_id |-> "-", outcome |-> "-"]
NoReturn == [op |-> "-", status |-> "-", values |-> <<>>]

\* no object of weather.py exists
LegacyNone ==
  /\ klass = "-"
  /\ _data = <<>>
  /\ lpc = "none"
  /\ years_left = <<>>
  /\ potential_station_ids = <<>>
  /\ candidate = 1
  /\ string = <<>>
  /\ attempt = NoAttempt
  /\ returned = NoReturn

None == 0 - 1
NoEvent == [op |-> "none", year |-> 0, force |-> FALSE, queried |-> FALSE,
            returned |-> FALSE]
NoOutcome == [ok |-> TRUE, data |-> <<>>]
Frequencies == {"D", "H", "15T"}

\* range(start_year, end_year + 1)
range(start_year, end_year) ==
  [i \in 1..(end_year - start_year + 1) |-> start_year + i - 1]

YearOfDay(day) == day \div DaysPerYear

\* the current year is the last year of the model
FirstToday == MaxYear * DaysPerYear
LastToday == (MaxYear + 1) * DaysPerYear - 1

Init ==
  /\ source \in {"GSOD", "ISD"}
  /\ cache = <<>>
  /\ tempC = <<>>
  /\ year_fetches_attempted = {}
  /\ today = FirstToday
  /\ pc = "none"
  /\ todo = <<>>
  /\ force = FALSE
  /\ freq = "-"
  /\ span = <<>>
  /\ result = "-"
  /\ ev = NoEvent
  /\ calls = 0
  /\ fetched = {}
  /\ loadedYears = {}
  /\ LegacyNone

Self == [tempC |-> tempC, cache |-> cache, attempted |-> year_fetches_attempted]

\* a call begins: nothing of an earlier call is left to observe
Begin(position, years, f) ==
  /\ pc' = position
  /\ todo' = years
  /\ force' = f
  /\ freq' = "-"
  /\ span' = <<>>
  /\ result' = "-"
  /\ ev' = NoEvent

\* One execution of add_year(year, f): its effect on the object and the record
\* of what happened.  next and rest are the position after a normal return,
\* abort the position after the client's exception has left the call.
RunAddYear(year, f, next, rest, abort) ==
  LET asks == ~NoFetch(year_fetches_attempted, year, f) IN
  /\ asks => calls < MaxCalls
  /\ \E outcome \in IF asks THEN ClientResults(source, year) ELSE {NoOutcome} :
     \E r \in {add_year(source, Self, year, f, outcome)} :
       /\ tempC' = r.tempC
       /\ cache' = r.cache
       /\ year_fetches_attempted' = r.attempted
       /\ calls' = IF r.queried THEN calls + 1 ELSE calls
       /\ fetched' = IF r.queried /\ ~r.raised THEN fetched \cup {year}
                     ELSE fetched
       /\ ev' = [op |-> "add_year", year |-> year, force |-> f,
                 queried |-> r.queried, returned |-> r.queried /\ ~r.raised]
       /\ pc' = IF r.raised THEN abort ELSE next
       /\ todo' = IF r.raised THEN <<>> ELSE rest
       /\ force' = IF r.raised \/ rest = <<>> THEN FALSE ELSE force
       /\ result' = IF r.raised THEN "raised"
                    ELSE IF next # "ready" THEN result
                    ELSE IF pc = "recent" THEN "constructed" ELSE "returned"
       /\ UNCHANGED <<freq, span>>

\* __init__ up to its loop: the series is loaded from the cache, the attempted
\* set is empty, the years of the optional range are queued.  A process may
\* construct the object whenever no call is running, on the day of the last
\* construction or the day after.
Construct(start_year, end_year, day) ==
  /\ pc \in {"none", "ready"}
  /\ day \in {today, today + 1}
  /\ day <= LastToday
  /\ LET loaded == load_from_cache(source, cache)
         years == IF start_year # None /\ end_year # None
                    THEN range(start_year, end_year)
                  ELSE IF start_year # None
                    THEN range(start_year, YearOfDay(day))
                  ELSE IF end_year # None
                    THEN range(YearOfDay(day), end_year)
                  ELSE <<>>
     IN /\ tempC' = loaded
        /\ loadedYears' = {y \in Years : _year_in_series(loaded, y)}
        /\ Begin(IF years = <<>> THEN "recent" ELSE "__init__", years, FALSE)
  /\ year_fetches_attempted' = {}
  /\ today' = day
  /\ fetched' = {}
  /\ UNCHANGED <<source, cache, calls>>
  /\ UNCHANGED legacy

\* one iteration of add_year_range's loop, called by the constructor
InitAddYear ==
  /\ pc = "__init__"
  /\ RunAddYear(Head(todo), force,
                IF Len(todo) = 1 THEN "recent" ELSE "__init__", Tail(todo),
                "none")
  /\ UNCHANGED <<source, today, loadedYears>>
  /\ UNCHANGED legacy

\* a slip in _check_for_recent_data: the year of today is fetched
TodayYear(day) == YearOfDay(day)

\* yesterday.year for yesterday = date.today() - timedelta(days=1)
YesterdayYear(day) == YearOfDay(day - 1)

\* _check_for_recent_data, the last statement of the constructor
_check_for_recent_data ==
  /\ pc = "recent"
  /\ LET yesterday == today - 1
         at == yesterday * HoursPerDay
     IN IF at \in DOMAIN tempC /\ isnull(tempC[at])
        THEN RunAddYear(YesterdayYear(today), TRUE, "ready", <<>>, "none")
        ELSE /\ pc' = "ready"
             /\ result' = "constructed"
             /\ UNCHANGED <<cache, tempC, year_fetches_attempted, todo, force,
                            freq, span, ev, calls, fetched>>
  /\ UNCHANGED <<source, today, loadedYears>>
  /\ UNCHANGED legacy

\* a caller's add_year(year, f)
CallAddYear(year, f) ==
  /\ pc = "ready"
  /\ Begin("add_year", <<year>>, f)
  /\ UNCHANGED <<source, cache, tempC, year_fetches_attempted, today, calls,
                 fetched, loadedYears>>
  /\ UNCHANGED legacy

\* the body of the caller's add_year
DoAddYear ==
  /\ pc = "add_year"
  /\ RunAddYear(Head(todo), force, "ready", <<>>, "ready")
  /\ UNCHANGED <<source, today, loadedYears>>
  /\ UNCHANGED legacy

\* a caller's add_year_range(start_year, end_year, f): the loop is entered,
\* or left at once when the range is empty
CallAddYearRange(start_year, end_year, f) ==
  /\ pc = "ready"
  /\ IF start_year <= end_year
     THEN Begin("add_year_range", range(start_year, end_year), f)
     ELSE /\ Begin("ready", <<>>, FALSE)
          /\ result' = "returned"
  /\ UNCHANGED <<source, cache, tempC, year_fetches_attempted, today, calls,
                 fetched, loadedYears>>
  /\ UNCHANGED legacy

\* one iteration of add_year_range's loop
RangeAddYear ==
  /\ pc = "add_year_range"
  /\ RunAddYear(Head(todo), force,
                IF Len(todo) = 1 THEN "ready" ELSE "add_year_range",
                Tail(todo), "ready")
  /\ UNCHANGED <<source, today, loadedYears>>
  /\ UNCHANGED legacy

\* a slip in _verify_index_presence: it returns at once for every index
VerifyNothing(years) == "freq"

\* where _verify_index_presence goes for the years of an index: it returns at
\* once for the empty index, else it enters its loop
_verify_index_presence(years) == IF years = <<>> THEN "freq" ELSE "verify"

\* a caller's indexed_temperatures(index, unit) for an index of frequency fr
\* whose timestamps span the years first..last (none if first > last: the
\* empty index); _verify_index_presence is entered
CallIndexedTemperatures(first, last, fr) ==
  /\ pc = "ready"
  /\ pc' = _verify_index_presence(range(first, last))
  /\ todo' = range(first, last)
  /\ span' = range(first, last)
  /\ freq' = fr
  /\ force' = FALSE
  /\ result' = "-"
  /\ ev' = NoEvent
  /\ UNCHANGED <<source, cache, tempC, year_fetches_attempted, today, calls,
                 fetched, loadedYears>>
  /\ UNCHANGED legacy

\* one iteration of _verify_index_presence's loop
VerifyAddYear ==
  /\ pc = "verify"
  /\ RunAddYear(Head(todo), force,
                IF Len(todo) = 1 THEN "freq" ELSE "verify", Tail(todo),
                "ready")
  /\ UNCHANGED <<source, today, loadedYears>>
  /\ UNCHANGED legacy

\* the branch of the source on a frequency: "D" is served by both classes,
\* "H" by ISDWeatherSource only
Serves(src, fr) == fr = "D" \/ (fr = "H" /\ src = "ISD")

\* indexed_temperatures after _verify_index_presence: the branch on
\* index.freq ends the call with temperatures or with a ValueError
FrequencyBranch ==
  /\ pc = "freq"
  /\ result' = IF Serves(source, freq) THEN "temperatures" ELSE "ValueError"
  /\ pc' = "ready"
  /\ UNCHANGED <<source, cache, tempC, year_fetches_attempted, today, todo,
                 force, freq, span, ev, calls, fetched, loadedYears>>
  /\ UNCHANGED legacy

Next ==
  \/ \E s \in Years \cup {None}, e \in Years \cup {None},
        d \in FirstToday..LastToday : Construct(s, e, d)
  \/ InitAddYear
  \/ _check_for_recent_data
  \/ \E y \in Years, f \in BOOLEAN : CallAddYear(y, f)
  \/ DoAddYear
  \/ \E s \in Years, e \in Years, f \in BOOLEAN : CallAddYearRange(s, e, f)
  \/ RangeAddYear
  \/ \E s \in Years, e \in Years, fr \in Frequencies :
       CallIndexedTemperatures(s, e, fr)
  \/ VerifyAddYear
  \/ FrequencyBranch

Spec == Init /\ [][Next]_vars

\* ---- eemeter/weather.py: sources that hold their years in memory
LastLegacyYear == 1
MaxPeriods == 2

LegacyYears == 0..LastLegacyYear
LegacyHours == 0..((LastLegacyYear + 1) * HoursPerYear - 1)
LegacyDays == 0..((LastLegacyYear + 1) * DaysPerYear - 1)
Units == {"degC", "degF"}
Readings == {Temp(x) : x \in Temps}

\* self._source_unit
_source_unit(k) == IF k = "ISD" THEN "degC" ELSE "degF"

\* Quantity.to(unit) between degC and degF; NaN stays NaN
to(v, from, unit) ==
  IF isnull(v) \/ from = unit THEN v
  ELSE IF unit = "degF" THEN Ratio(v.n * 9 + 32 * 5 * v.d, 5 * v.d)
  ELSE Ratio((v.n - 32 * v.d) * 5, 9 * v.d)

\* np.mean of a list: the sum over the length; NaN for the empty list and
\* for a list that holds a NaN
np_mean(vals) ==
  LET s == SumOf(vals)
  IN IF vals = <<>> \/ \E i \in DOMAIN vals : isnull(vals[i]) THEN NULL
     ELSE Ratio(s.n, s.d * Len(vals))

\* np.mean of np.ma.masked_array(data, np.isnan(data)): the mean of the
\* entries that are not masked, undefined if there is none
masked_mean(vals) == mean(vals)

\* the key of _data for a time: "%Y%m%d%H" (ISD), "%Y%m%d" (GSOD, WU)
strftime(k, t) == IF k = "ISD" THEN t ELSE t \div HoursPerDay

\* the station index: the full identifiers of a six-digit code, in order
station_index ==
  [id \in {"722860"} |-> <<"722860-23119", "722860-99999">>]

StationIds == {"722860", "722860-23119"}

\* the header line of a GSOD file
Header == [at |-> None, temp |-> NULL]

\* the data lines a file of the year may hold: a GSOD line carries a day and
\* a temperature, an ISD line a minute and a temperature or "+9999"
Lines(k, year) ==
  IF k = "GSOD"
  THEN [at : (year * DaysPerYear)..((year + 1) * DaysPerYear - 1),
        temp : Readings]
  ELSE [at : (FirstHour(year) * MinutesPerHour)
               ..(FirstHour(year + 1) * MinutesPerHour - 1),
        temp : Readings \cup {NULL}]

Files(k, year) ==
  {IF k = "GSOD" THEN <<Header>> \o l ELSE l :
     l \in SeqsUpTo(Lines(k, year), MaxRecords)}

\* what one ftp.retrbinary(..., string.write) may do: write the file; fail
\* with error_perm before anything is written; fail with IOError, possibly
\* after a part of the file was written; fail with another error of ftplib
Retrievals(k, year) ==
  {[outcome |-> "ok", written |-> <<[complete |-> TRUE, lines |-> f]>>] :
     f \in Files(k, year)}
    \cup {[outcome |-> "error_perm", written |-> <<>>],
          [outcome |-> "IOError", written |-> <<>>],
          [outcome |-> "IOError",
           written |-> <<[complete |-> FALSE, lines |-> <<>>]>>],
          [outcome |-> "error_temp", written |-> <<>>]}

\* except (IOError, ftplib.error_perm)
Caught(outcome) == outcome \in {"IOError", "error_perm"}

\* self._data[key] = v
Put(data, key, v) ==
  [x \in DOMAIN data \cup {key} |-> IF x = key THEN v ELSE data[x]]

RECURSIVE StoreLines(_, _, _)
StoreLines(k, data, lines) ==
  IF lines = <<>> THEN data
  ELSE LET l == Head(lines)
           key == IF k = "GSOD" THEN l.at ELSE l.at \div MinutesPerHour
       IN StoreLines(k, Put(data, key, l.temp), Tail(lines))

\* _add_file: GSOD skips the first line, ISD reads every line
_add_file(k, data, lines) ==
  IF k = "GSOD"
  THEN StoreLines(k, data, IF lines = <<>> THEN <<>> ELSE Tail(lines))
  ELSE StoreLines(k, data, lines)

\* a consumption period: its start and its duration, in hours
Durations == (0 - 1)..(3 * HoursPerDay)
Periods == [start : LegacyHours, duration : Durations]

\* the keys the loop of get_consumption_average_temperature visits:
\* timedelta.days days from the start (GSOD, WU), or
\* timedelta.days * 24 + timedelta.seconds // 3600 hours (ISD)
LoopKeys(k, p) ==
  LET days == p.duration \div HoursPerDay
      n_hours == days * HoursPerDay + (p.duration % HoursPerDay)
  IN IF k = "ISD"
     THEN [i \in 1..n_hours |-> strftime(k, p.start + (i - 1))]
     ELSE [i \in 1..days |-> strftime(k, p.start + (i - 1) * HoursPerDay)]

\* get_consumption_average_temperature(consumption, unit)
get_consumption_average_temperature(k, data, p, unit) ==
  LET keys == LoopKeys(k, p)
  IN IF k = "ISD"
     THEN LET avg_temps ==
                [i \in DOMAIN keys |->
                   to(IF keys[i] \in DOMAIN data THEN data[keys[i]] ELSE NULL,
                      _source_unit(k), unit)]
          IN [status |-> "value", value |-> masked_mean(avg_temps)]
     ELSE IF \E i \in DOMAIN keys : keys[i] \notin DOMAIN data
          THEN [status |-> "KeyError", value |-> NULL]
          ELSE LET avg_temps ==
                     [i \in DOMAIN keys |->
                        to(data[keys[i]], _source_unit(k), unit)]
               IN [status |-> "value", value |-> np_mean(avg_temps)]

\* consumption_history.get(fuel_type): the periods of the history, in an
\* order of its own
consumption_history_get(history) ==
  LET n == DOMAIN history
      orders == {f \in [n -> n] : \A a \in n : \A b \in n : f[a] = f[b] => a = b}
  IN {[i \in n |-> history[f[i]]] : f \in orders}

\* get_average_temperature over the periods as consumption_history.get
\* returned them
get_average_temperature(k, data, got, unit) ==
  LET each == [i \in DOMAIN got |->
                 get_consumption_average_temperature(k, data, got[i], unit)]
  IN IF \E i \in DOMAIN got : each[i].status # "value"
     THEN [status |-> "KeyError", values |-> <<>>]
     ELSE [status |-> "value", values |-> [i \in DOMAIN got |-> each[i].value]]

\* the periods of the histories: whole days
HistoryPeriods ==
  {p \in Periods : /\ p.start % HoursPerDay = 0
                   /\ p.duration \in {HoursPerDay, 2 * HoursPerDay}}

Histories == SeqsUpTo(HistoryPeriods, MaxPeriods)

\* GSODWeatherSource(station_id, start_year, end_year) or
\* ISDWeatherSource(...), up to the loop over the years
LegacyConstruct(k, station_id, start_year, end_year) ==
  /\ lpc = "none"
  /\ klass' = k
  /\ _data' = <<>>
  /\ potential_station_ids' = IF station_id \in DOMAIN station_index
                              THEN station_index[station_id]
                              ELSE <<station_id>>
  /\ years_left' = range(start_year, end_year)
  /\ lpc' = IF start_year <= end_year THEN "retr" ELSE "ready"
  /\ UNCHANGED <<candidate, string, attempt, returned>>
  /\ UNCHANGED noaa

\* one iteration of the loop over the candidates: retrbinary for the
\* candidate and the year; break, pass, or the exception leaves __init__
TryCandidate ==
  /\ lpc = "retr"
  /\ \E r \in Retrievals(klass, Head(years_left)) :
       /\ string' = string \o r.written
       /\ attempt' = [station_id |-> potential_station_ids[candidate],
                      outcome |-> r.outcome]
       /\ IF r.outcome = "ok"
          THEN lpc' = "parse" /\ UNCHANGED <<candidate, returned>>
          ELSE IF Caught(r.outcome)
          THEN /\ lpc' = IF candidate < Len(potential_station_ids)
                         THEN "retr" ELSE "parse"
               /\ candidate' = IF candidate < Len(potential_station_ids)
                               THEN candidate + 1 ELSE candidate
               /\ UNCHANGED returned
          ELSE /\ lpc' = "failed"
               /\ returned' = [op |-> "__init__", status |-> r.outcome,
                               values |-> <<>>]
               /\ UNCHANGED candidate
  /\ UNCHANGED <<klass, _data, years_left, potential_station_ids>>
  /\ UNCHANGED noaa

\* after the loop: the StringIO is read as a gzip file and added; an empty
\* one has no line, one that is not one whole file makes gzip raise
AddFile ==
  /\ lpc = "parse"
  /\ IF string = <<>> \/ (Len(string) = 1 /\ string[1].complete)
     THEN /\ _data' = _add_file(klass, _data,
                                IF string = <<>> THEN <<>> ELSE string[1].lines)
          /\ years_left' = Tail(years_left)
          /\ lpc' = IF Len(years_left) = 1 THEN "ready" ELSE "retr"
          /\ candidate' = 1
          /\ string' = <<>>
          /\ attempt' = NoAttempt
          /\ UNCHANGED returned
     ELSE /\ lpc' = "failed"
          /\ returned' = [op |-> "__init__", status |-> "IOError",
                          values |-> <<>>]
          /\ UNCHANGED <<_data, years_left, candidate, string, attempt>>
  /\ UNCHANGED <<klass, potential_station_ids>>
  /\ UNCHANGED noaa

\* WeatherUndergroundWeatherSource(zipcode, start, end, api_key): the daily
\* summaries the service returns are stored
ConstructWU(summaries) ==
  /\ lpc = "none"
  /\ klass' = "WU"
  /\ _data' = summaries
  /\ lpc' = "ready"
  /\ UNCHANGED <<years_left, potential_station_ids, candidate, string, attempt,
                 returned>>
  /\ UNCHANGED noaa

\* the calls leave the object as it is: the first call of an object stands
\* for every call of it
FirstCall == lpc = "ready" /\ returned = NoReturn

\* a caller's get_consumption_average_temperature(consumption, unit)
GetConsumptionAverageTemperature(p, unit) ==
  /\ FirstCall
  /\ LET r == get_consumption_average_temperature(klass, _data, p, unit)
     IN returned' = [op |-> "get_consumption_average_temperature",
                     status |-> r.status, values |-> <<r.value>>]
  /\ UNCHANGED <<klass, _data, lpc, years_left, potential_station_ids,
                 candidate, string, attempt>>
  /\ UNCHANGED noaa

\* a caller's get_average_temperature(consumption_history, fuel_type, unit)
GetAverageTemperature(history, unit) ==
  /\ FirstCall
  /\ \E got \in consumption_history_get(history) :
       LET r == get_average_temperature(klass, _data, got, unit)
       IN returned' = [op |-> "get_average_temperature",
                       status |-> r.status, values |-> r.values]
  /\ UNCHANGED <<klass, _data, lpc, years_left, potential_station_ids,
                 candidate, string, attempt>>
  /\ UNCHANGED noaa

LegacyInit == Init /\ source = "GSOD"

LegacyNext ==
  \/ \E k \in {"GSOD", "ISD"}, id \in StationIds,
        s \in LegacyYears, e \in LegacyYears : LegacyConstruct(k, id, s, e)
  \/ TryCandidate
  \/ AddFile
  \/ \E S \in SUBSET LegacyDays : \E summaries \in [S -> Readings] :
       ConstructWU(summaries)
  \/ \E p \in Periods, unit \in Units : GetConsumptionAverageTemperature(p, unit)
  \/ \E history \in Histories, unit \in Units :
       GetAverageTemperature(history, unit)

LegacySpec == LegacyInit /\ [][LegacyNext]_vars

\* ---- what the claims speak of
\* the slots a year has in the series of the source
YearSlots(src, year) ==
  {FirstHour(year) + i * Interval(src) :
     i \in 0..(HoursPerYear \div Interval(src) - 1)}

\* the step is an execution of add_year: ev' describes it
AddYearRuns == pc \in {"__init__", "recent", "add_year", "add_year_range", "verify"}
               /\ ev'.op = "add_year" /\ ev' # ev

\* the new_series add_year builds from what the client returned
NewSeries(year, outcome) ==
  FillSeries(source, _empty_series(source, year), outcome.data)

\* the object after add_year(year, force=True) when the client does outcome
Refetched(st, year, outcome) ==
  LET r == add_year(source, st, year, TRUE, outcome)
  IN [tempC |-> r.tempC, cache |-> r.cache, attempted |-> r.attempted]

\* C1: within one object, a call of add_year(year, force=False), made
\* directly, by add_year_range, by the constructor or by indexed_temperatures,
\* calls the client only for a year for which no client call has returned yet:
\* while every fetch returns, a year is fetched at most once.
C1_OneFetchPerYear ==
  [][(AddYearRuns /\ ~ev'.force /\ calls' = calls + 1)
       => ev'.year \notin fetched]_vars

\* a non-forced add_year of a year fetched before has run without a client call
C1_Witness ==
  /\ ev.op = "add_year" /\ ~ev.force /\ ~ev.queried
  /\ ev.year \in fetched
  /\ calls >= 1

\* C2: add_year(year, force=False) for a year present in the series loaded
\* from the cache at construction makes no client call and leaves the series
\* as it is.
C2_CachedYearNotFetched ==
  [][(AddYearRuns /\ ~ev'.force /\ ev'.year \in loadedYears)
       => (calls' = calls /\ tempC' = tempC)]_vars

\* C3: every execution of add_year(year, force=True) calls the client.
C3_ForceAlwaysQueries ==
  (ev.op = "add_year" /\ ev.force) => ev.queried

\* a forced add_year has called the client for a year this object had fetched
\* and merged before: a slot of the year holds the mean of two different
\* readings, both fetched by this object
C3_Witness ==
  /\ ev.op = "add_year" /\ ev.force /\ ev.queried /\ ev.returned
  /\ loadedYears = {}
  /\ ev.year \in year_fetches_attempted
  /\ \E t \in YearSlots(source, ev.year) :
       ~isnull(tempC[t]) /\ tempC[t] \notin {Temp(x) : x \in Temps}

\* C4: fetching and merging a year a second time, the client returning the
\* same data, leaves the series as it was after the first merge.
C4_MergeIdempotent ==
  \A year \in Years : \A outcome \in ClientResults(source, year) :
    outcome.ok =>
      LET once == Refetched(Self, year, outcome)
          twice == Refetched(once, year, outcome)
      IN twice.tempC = once.tempC

\* C5: when the series holds a reading at a timestamp and a later fetch of the
\* year returns a reading for that timestamp, the series holds exactly the
\* later reading after the merge.
C5_LaterFetchOverwrites ==
  \A year \in Years : \A outcome \in ClientResults(source, year) :
    outcome.ok =>
      \A t \in YearSlots(source, year) \cap DOMAIN tempC :
        (~isnull(tempC[t]) /\ ~isnull(NewSeries(year, outcome)[t]))
          => Refetched(Self, year, outcome).tempC[t] = NewSeries(year, outcome)[t]

\* C6: every slot of every year in the attempted set is a key of the series.
C6_AttemptedYearsComplete ==
  \A year \in year_fetches_attempted :
    \A t \in YearSlots(source, year) : t \in DOMAIN tempC

\* a fetch has returned no reading for a year: all its slots are keys, null
C6_Witness ==
  /\ ev.op = "add_year" /\ ev.returned
  /\ ev.year \in year_fetches_attempted
  /\ \A t \in YearSlots(source, ev.year) : t \in DOMAIN tempC /\ isnull(tempC[t])

\* C7: between the executions of add_year, the station's cache entry holds the
\* series of the object: the same timestamps with the same values or nulls.
C7_CacheHoldsSeries ==
  /\ load_from_cache(source, cache) = tempC
  /\ cache = save_to_cache(source, tempC)

\* a fetch with a reading has been merged and the entry holds it
C7_Witness ==
  /\ ev.op = "add_year" /\ ev.returned
  /\ \E t \in DOMAIN tempC : ~isnull(tempC[t])
  /\ \E k \in DOMAIN cache : ~isnull(cache[k])

\* C8: no step removes a timestamp from the series.
C8_SeriesNeverShrinks ==
  [][DOMAIN tempC \subseteq DOMAIN tempC']_vars

\* a forced fetch has been merged into a series that holds more than one year
C8_Witness ==
  /\ ev.op = "add_year" /\ ev.force /\ ev.returned
  /\ calls = MaxCalls
  /\ Cardinality(DOMAIN tempC) > Cardinality(YearSlots(source, ev.year))

\* C9: after an execution of add_year that called the client, the year is in
\* the attempted set, whatever the client did.
C9_AttemptedWhateverTheOutcome ==
  (ev.op = "add_year" /\ ev.queried) => ev.year \in year_fetches_attempted

\* C10: no call ends with the client's exception, and an iteration of the
\* loop of add_year_range, in a call or in the constructor, goes on to the
\* next year of the range whatever the client did.
C10_FailureDoesNotAbortRange ==
  [][(AddYearRuns /\ pc \in {"__init__", "add_year_range"})
       => (result' # "raised" /\ todo' = Tail(todo))]_vars

\* C11: a call of indexed_temperatures with an index of a frequency the
\* source does not serve (any but "D", and "H" on GSOD) ends with the
\* ValueError of the frequency branch, never with temperatures or otherwise.
C11_UnsupportedFrequencyFails ==
  (pc = "ready" /\ freq # "-" /\ ~Serves(source, freq))
    => result = "ValueError"

\* yesterday is a key of the series and holds null
YesterdayIsNull ==
  LET at == (today - 1) * HoursPerDay
  IN at \in DOMAIN tempC /\ isnull(tempC[at])

\* the step is the freshness check of the constructor
CheckRuns == pc = "recent" /\ pc' # "recent"

\* C12 as claimed: when yesterday is in the series and null, the constructor
\* makes exactly one forced fetch, of the current year; otherwise none.
C12_RefetchOfCurrentYear ==
  [][CheckRuns =>
       IF YesterdayIsNull
       THEN /\ calls' = calls + 1
            /\ ev'.op = "add_year" /\ ev'.force /\ ev'.queried
            /\ ev'.year = YearOfDay(today)
       ELSE calls' = calls /\ ev' = ev]_vars

\* C12 as amended: when yesterday is in the series and null, the constructor
\* makes exactly one forced fetch, of the year yesterday lies in (the current
\* year, except on the first day of a year); otherwise it makes none.
C12_RefetchOfYesterdaysYear ==
  [][CheckRuns =>
       IF YesterdayIsNull
       THEN /\ calls' = calls + 1
            /\ ev'.op = "add_year" /\ ev'.force /\ ev'.queried
            /\ ev'.year = YearOfDay(today - 1)
       ELSE calls' = calls /\ ev' = ev]_vars

\* a constructor has made its forced fetch on the first day of a year: it
\* fetched the year before
C12_Witness ==
  /\ pc = "ready" /\ result = "constructed"
  /\ ev.op = "add_year" /\ ev.force /\ ev.queried
  /\ ev.year # YearOfDay(today)

\* the running or last call is indexed_temperatures and has passed
\* _verify_index_presence
Verified == freq # "-" /\ (pc = "freq" \/ (pc = "ready" /\ result # "raised"))

\* C18: when indexed_temperatures inspects the frequency of the index, and so
\* when it has rejected the index with ValueError, every year of the index is
\* in the attempted set, all its slots are keys of the series and the cache
\* holds the series; for the empty index no add_year has run and no client
\* call was made.
C18_YearsAddedBeforeFrequency ==
  Verified =>
    /\ \A i \in DOMAIN span :
         /\ span[i] \in year_fetches_attempted
         /\ YearSlots(source, span[i]) \subseteq DOMAIN tempC
    /\ cache = save_to_cache(source, tempC)
    /\ span = <<>> => ev = NoEvent

\* an index of a frequency the source does not serve was rejected after the
\* call had fetched and merged a year of the index
C18_Witness ==
  /\ pc = "ready" /\ result = "ValueError"
  /\ ev.op = "add_year" /\ ~ev.force /\ ev.returned
  /\ \E i \in DOMAIN span : span[i] = ev.year
  /\ ev.year \in year_fetches_attempted
  /\ \E t \in YearSlots(source, ev.year) : ~isnull(tempC[t])

\* C19: no step turns a non-null temperature of the series into null or
\* removes its timestamp.
C19_NonNullStays ==
  [][\A t \in DOMAIN tempC :
       ~isnull(tempC[t]) => (t \in DOMAIN tempC' /\ ~isnull(tempC'[t]))]_vars

\* the slots of a year that hold a temperature
Known(year) ==
  {t \in YearSlots(source, year) \cap DOMAIN tempC : ~isnull(tempC[t])}

\* a forced fetch of a year has returned and the year holds more temperatures
\* than one fetch brings: the fetch returned no reading for a slot that held
\* one, and the slot still holds it
C19_Witness ==
  /\ ev.op = "add_year" /\ ev.force /\ ev.returned
  /\ calls = MaxRecords + 1
  /\ Cardinality(Known(ev.year)) > MaxRecords

\* the series has one key per interval of the source from its first to its
\* last key
GapFree ==
  \A a \in DOMAIN tempC : \A b \in DOMAIN tempC :
    \A i \in 0..((b - a) \div Interval(source)) :
      a + i * Interval(source) \in DOMAIN tempC

\* C20: the keys of the series are gap-free, so for two years fetched by the
\* object every slot of a year between them is a key and _year_in_series is
\* true for it; the slots hold null if the year was never fetched.
C20_SeriesGapFree ==
  /\ GapFree
  /\ \A a \in fetched : \A b \in fetched : \A y \in (a + 1)..(b - 1) :
       /\ YearSlots(source, y) \subseteq DOMAIN tempC
       /\ _year_in_series(tempC, y)
       /\ (calls = Cardinality(fetched) /\ y \notin fetched)
            => \A t \in YearSlots(source, y) : isnull(tempC[t])

\* two non-adjacent years were fetched and the year between them, never
\* attempted, is present with nulls
C20_Witness ==
  /\ ev.op = "add_year" /\ ev.returned
  /\ fetched = {0, 2}
  /\ 1 \notin year_fetches_attempted
  /\ _year_in_series(tempC, 1)
  /\ \A t \in YearSlots(source, 1) : t \in DOMAIN tempC /\ isnull(tempC[t])

\* ---- the claims about eemeter/weather.py
\* the interval of a period of positive duration that starts and ends on the
\* points of the class: days for GSOD and WU, hours for ISD
Step(k) == IF k = "ISD" THEN 1 ELSE HoursPerDay

Regular(k, p) ==
  p.duration > 0 /\ p.start % Step(k) = 0 /\ p.duration % Step(k) = 0

\* the non-null points of the data inside [start, start + duration), in the
\* requested unit
PointsInside(k, data, p, unit) ==
  LET at == [i \in 1..(p.duration \div Step(k)) |->
               strftime(k, p.start + (i - 1) * Step(k))]
      all == [i \in DOMAIN at |->
                IF at[i] \in DOMAIN data
                THEN to(data[at[i]], _source_unit(k), unit) ELSE NULL]
  IN SelectSeq(all, LAMBDA v : ~isnull(v))

\* C13: get_average_temperature returns one average per period of the
\* history, element i being the average of the i-th period the caller gave.
C13_InputOrderPreserved ==
  lpc = "ready" =>
    \A history \in Histories : \A unit \in Units :
      \A got \in consumption_history_get(history) :
        LET r == get_average_temperature(klass, _data, got, unit)
        IN r.status = "value" =>
             /\ Len(r.values) = Len(history)
             /\ \A i \in DOMAIN history :
                  r.values[i] =
                    get_consumption_average_temperature(
                      klass, _data, history[i], unit).value

\* C14: for the daily and the hourly source the average of a period that has
\* a non-null point inside it is the mean of its non-null points, converted
\* to the unit: the null points are left out of the mean.
C14_MeanOfNonNullPoints ==
  (lpc = "ready" /\ klass \in {"GSOD", "ISD"}) =>
    \A p \in Periods : \A unit \in Units :
      (Regular(klass, p) /\ PointsInside(klass, _data, p, unit) # <<>>) =>
        get_consumption_average_temperature(klass, _data, p, unit)
          = [status |-> "value",
             value |-> mean(PointsInside(klass, _data, p, unit))]

\* C15: for every source the average of a period with no non-null point
\* inside it is the undefined value; the call does not raise.
C15_NoDataIsUndefined ==
  lpc = "ready" =>
    \A p \in Periods : \A unit \in Units :
      (Regular(klass, p) /\ PointsInside(klass, _data, p, unit) = <<>>) =>
        get_consumption_average_temperature(klass, _data, p, unit)
          = [status |-> "value", value |-> NULL]

\* C16: the average of a period of zero or negative duration is the
\* InvalidInterval error, never a value.
C16_InvalidIntervalReported ==
  (lpc = "ready" /\ klass \in {"GSOD", "ISD"}) =>
    \A p \in Periods : \A unit \in Units :
      p.duration <= 0 =>
        get_consumption_average_temperature(klass, _data, p, unit).status
          = "InvalidInterval"

\* C17: the candidates of a year are tried in the order of the list; after
\* a success no other candidate is tried; after a failure the next one is
\* tried, or, if it was the last, the year adds nothing to the data and the
\* constructor goes on.
C17_FallbackInOrder ==
  [][/\ lpc = "retr" =>
          /\ attempt'.station_id = potential_station_ids[candidate]
          /\ attempt'.outcome = "ok" => lpc' = "parse"
          /\ attempt'.outcome # "ok" =>
               IF candidate < Len(potential_station_ids)
               THEN lpc' = "retr" /\ candidate' = candidate + 1
               ELSE lpc' = "parse"
     /\ (lpc = "parse" /\ attempt.outcome # "ok") =>
          (lpc' # "failed" /\ _data' = _data)]_vars

====
